---- MODULE Spec2Model ----
(***************************************************************************)
(* input_2_txt.py: clip range resolution, acquisition, and interruptible   *)
(* Whisper transcription, as one run of main().                            *)
(*                                                                         *)
(* Text is modelled as a sequence of characters, each character a          *)
(* one-character string.  "u0663" stands for the single character U+0663   *)
(* (ARABIC-INDIC DIGIT THREE), which the module language cannot spell.     *)
(*                                                                         *)
(* Modelling boundary.  One operator interrupt (Ctrl-C) may arrive per     *)
(* run, at any step of the body of main()'s try block (lines 218-258).     *)
(* Writes to the run's own fresh directory succeed.  The external engines  *)
(* (ffmpeg, yt-dlp, ffprobe, Whisper) are nondeterministic: every result   *)
(* their interface allows is a possible outcome.                           *)
(***************************************************************************)
EXTENDS Integers, Sequences, FiniteSets, TLC

VARIABLES
    SOURCE,          \* "local_file" | "url": what the locator names
    START_TS,        \* user setting, text
    END_TS,          \* user setting, text
    whisper_out,     \* the chunks the engine writes to stdout for this audio
    whisper_segs,    \* the text fields of result['segments'] for this audio
    pc,              \* position of the run
    dur,             \* main: dur (None or an integer)
    s_sec, e_sec,    \* main: s_sec, e_sec (None until line 236 runs)
    start, end,      \* main: start, end as handed to the acquisition stage
    acq_calls,       \* number of subprocess.run calls of the acquisition stage
    acq_rc,          \* run.returncode of the acquisition collaborator
    mp3_exists,      \* dest_mp3.exists()
    transcribe_calls,\* number of calls of transcribe()
    emitted,         \* number of chunks of whisper_out written so far
    captured,        \* captured.getvalue()
    status,          \* transcribe: status
    txt,             \* content of transcript.txt, NoFile while it does not exist
    txt_writes,      \* number of write_text calls
    exc,             \* the exception in flight, "none" if none
    int_at,          \* where the interrupt arrived, "none" if it has not
    banner,          \* final banner printed by main
    stderr,          \* what main printed on the error stream
    exit_code        \* sys.exit status; None while running; 0 on normal return

vars == <<SOURCE, START_TS, END_TS, whisper_out, whisper_segs, pc, dur, s_sec,
          e_sec, start, end, acq_calls, acq_rc, mp3_exists, transcribe_calls,
          emitted, captured, status, txt, txt_writes, exc, int_at, banner,
          stderr, exit_code>>

None == -1
NoFile == <<"<no file>">>
NoText == <<"<unset>">>

-----------------------------------------------------------------------------
(* Characters                                                              *)

AsciiDigits == <<"0", "1", "2", "3", "4", "5", "6", "7", "8", "9">>
U0663 == "u0663"

\* int() of one decimal digit character
DigitVal(c) ==
    IF c = U0663 THEN 3
    ELSE (CHOOSE i \in 1..10 : AsciiDigits[i] = c) - 1

IsAsciiDigit(c) == \E i \in 1..10 : AsciiDigits[i] = c

\* regex \d on str patterns: any Unicode decimal digit
IsDigit(c) == IsAsciiDigit(c) \/ c = U0663

\* regex [0-5]
IsDigit05(c) == \E i \in 1..6 : AsciiDigits[i] = c

\* regex \s, and the characters str.strip() removes
IsSpace(c) == c \in {" ", "\t", "\n", "\r"}

-----------------------------------------------------------------------------
(* ts_to_sec / sec_to_ts                                                   *)

\* TS_RE.match(ts): ^(\d\d):([0-5]\d):([0-5]\d)$ ; "$" matches at the end of
\* the string and also just before a newline that ends the string.
TS_RE_match(ts) ==
    /\ \/ Len(ts) = 8
       \/ Len(ts) = 9 /\ ts[9] = "\n"
    /\ IsDigit(ts[1]) /\ IsDigit(ts[2])
    /\ ts[3] = ":"
    /\ IsDigit05(ts[4]) /\ IsDigit(ts[5])
    /\ ts[6] = ":"
    /\ IsDigit05(ts[7]) /\ IsDigit(ts[8])

\* int() of a two-character group
Int2(a, b) == 10 * DigitVal(a) + DigitVal(b)

\* ts_to_sec, for a ts that TS_RE matches (otherwise it raises ValueError)
ts_to_sec(ts) == Int2(ts[1], ts[2]) * 3600 + Int2(ts[4], ts[5]) * 60 + Int2(ts[7], ts[8])

RECURSIVE Decimal(_)
Decimal(n) ==
    IF n < 10 THEN <<AsciiDigits[n + 1]>>
    ELSE Decimal(n \div 10) \o <<AsciiDigits[(n % 10) + 1]>>

\* format spec 02d
Fmt02(n) == IF n < 10 THEN <<"0">> \o Decimal(n) ELSE Decimal(n)

sec_to_ts(sec) ==
    LET h   == sec \div 3600
        rem == sec % 3600
        m   == rem \div 60
        s   == rem % 60
    IN  Fmt02(h) \o <<":">> \o Fmt02(m) \o <<":">> \o Fmt02(s)

-----------------------------------------------------------------------------
(* Clip range (main, lines 235-246)                                        *)

\* line 235, "if dur:" : None and 0 are both falsy
Truthy(d) == d # None /\ d # 0

\* lines 236-237: a non-empty marker goes through ts_to_sec, which raises
\* ValueError when TS_RE does not match
KnownRaises(S, E) ==
    \/ S # <<>> /\ ~TS_RE_match(S)
    \/ E # <<>> /\ ~TS_RE_match(E)

\* line 236
StartOrZero(S) == IF S # <<>> THEN ts_to_sec(S) ELSE 0

\* line 237
EndOrDur(E, d) == IF E # <<>> THEN ts_to_sec(E) ELSE d

\* lines 238-239 without the clamp
Clamp_Absent(e, d) == e

\* lines 238-239
Clamp(e, d) == IF e > d THEN d ELSE e

\* lines 240-241 with > for >=
Fallback_Strict(s, e, d) == IF s > e THEN <<0, d>> ELSE <<s, e>>

\* lines 240-241
Fallback(s, e, d) == IF s >= e THEN <<0, d>> ELSE <<s, e>>

\* lines 236-241: the pair (s_sec, e_sec)
ClipKnown(S, E, d) == Fallback(StartOrZero(S), Clamp(EndOrDur(E, d), d), d)

\* line 244 with "and" for "or"
UnknownRaises_Both(S, E) == S = <<>> /\ E = <<>>

\* line 244
UnknownRaises(S, E) == S = <<>> \/ E = <<>>

-----------------------------------------------------------------------------
(* Acquisition postconditions                                              *)

\* extract_audio_local, line 95
extract_audio_local_raises(rc, exists) == rc # 0 \/ ~exists

\* download_audio without the check of line 166
download_audio_raises_NoFileCheck(rc, exists) == rc # 0

\* download_audio, lines 163-167
download_audio_raises(rc, exists) ==
    IF rc # 0 THEN TRUE
    ELSE IF ~exists THEN TRUE
    ELSE FALSE

-----------------------------------------------------------------------------
(* WHISPER_VERBOSE_RE and findall (lines 44-46, 202)                       *)
(* A position is an index into the buffer; 0 means "no match".             *)

At(b, i) == IF i >= 1 /\ i <= Len(b) THEN b[i] ELSE ""

Lit(b, i, c) == IF i # 0 /\ At(b, i) = c THEN i + 1 ELSE 0

Dig(b, i) == IF i # 0 /\ i <= Len(b) /\ IsDigit(b[i]) THEN i + 1 ELSE 0

RECURSIVE SkipSpaces(_, _)
\* \s* (greedy; what follows it in the pattern is never whitespace)
SkipSpaces(b, i) ==
    IF i # 0 /\ i <= Len(b) /\ IsSpace(b[i]) THEN SkipSpaces(b, i + 1) ELSE i

\* \d{2}:\d{2}(?::\d{2})?\.\d{3}
Clock(b, i) ==
    LET p == Dig(b, Dig(b, Lit(b, Dig(b, Dig(b, i)), ":")))
        q == IF p # 0 /\ At(b, p) = ":" THEN Dig(b, Dig(b, p + 1)) ELSE p
    IN  Dig(b, Dig(b, Dig(b, Lit(b, q, "."))))

\* \[ clock \s*-->\s* clock \]
Stamp(b, i) ==
    LET p == SkipSpaces(b, Clock(b, Lit(b, i, "[")))
        q == SkipSpaces(b, Lit(b, Lit(b, Lit(b, p, "-"), "-"), ">"))
    IN  Lit(b, Clock(b, q), "]")

RECURSIVE LineEnd(_, _)
\* (.*) from position i: the position just after the last character that is
\* not a newline
LineEnd(b, i) ==
    IF i <= Len(b) /\ b[i] # "\n" THEN LineEnd(b, i + 1) ELSE i

\* the whole pattern at position i: <<start of group 1, position after it>>,
\* or <<0, 0>>.  \s+ is greedy and the group may be empty, so no backtracking.
MatchAt(b, i) ==
    LET p == Stamp(b, i)
        q == SkipSpaces(b, p)
    IN  IF p = 0 \/ q = p THEN <<0, 0>> ELSE <<q, LineEnd(b, q)>>

RECURSIVE FindallFrom(_, _)
FindallFrom(b, i) ==
    IF i > Len(b) THEN <<>>
    ELSE LET m == MatchAt(b, i)
         IN  IF m[1] = 0 THEN FindallFrom(b, i + 1)
             ELSE <<SubSeq(b, m[1], m[2] - 1)>> \o FindallFrom(b, m[2])

\* WHISPER_VERBOSE_RE.findall(buf): the list of group 1 of every match
findall(b) == FindallFrom(b, 1)

-----------------------------------------------------------------------------
(* Transcript text (lines 197, 203)                                        *)

RECURSIVE lstrip(_)
lstrip(t) == IF t # <<>> /\ IsSpace(Head(t)) THEN lstrip(Tail(t)) ELSE t

RECURSIVE rstrip(_)
rstrip(t) ==
    IF t # <<>> /\ IsSpace(t[Len(t)]) THEN rstrip(SubSeq(t, 1, Len(t) - 1)) ELSE t

\* lstrip() for strip()
strip_LeftOnly(t) == lstrip(t)

\* str.strip()
strip(t) == rstrip(lstrip(t))

RECURSIVE join(_)
\* '\n'.join(parts)
join(parts) ==
    IF parts = <<>> THEN <<>>
    ELSE IF Len(parts) = 1 THEN parts[1]
    ELSE parts[1] \o <<"\n">> \o join(Tail(parts))

\* line 197: '\n'.join(seg['text'].strip() for seg in result['segments'])
FullTranscript(segs) == join([i \in 1..Len(segs) |-> strip(segs[i])])

\* lines 202-203
PartialTranscript(buf) ==
    LET lines == findall(buf)
    IN  IF lines # <<>> THEN join(lines) ELSE buf

-----------------------------------------------------------------------------
(* Inputs                                                                  *)

MaxLines == 3     \* lines of engine output per run
MaxSegs == 3      \* segments in a result

\* HH:MM:SS from six characters
T(a, b, c, d, e, f) == <<a, b, ":", c, d, ":", e, f>>

DefaultStart == T("0", "0", "0", "2", "3", "0")   \* line 38
DefaultEnd == T("0", "0", "0", "3", "5", "0")     \* line 39

WellFormedMarkers ==
    { T("0", "0", "0", "0", "0", "0"),
      T("0", "0", "0", "1", "0", "0"),
      DefaultStart,
      T("0", "0", "0", "3", "0", "0"),
      DefaultEnd,
      T("0", "0", "0", "5", "0", "0"),
      T("0", "1", "0", "0", "0", "0") }

OtherMarkers ==
    { T("0", "0", "6", "0", "0", "0"),                   \* minute 60
      T("0", "0", "0", "0", "6", "0"),                   \* second 60
      <<"0", "0", "-", "0", "1", "-", "0", "0">>,        \* wrong separators
      <<"0", ":", "0", "1", ":", "0", "0">>,             \* H:MM:SS
      <<"1", "0", "0">>,                                 \* bare seconds
      DefaultStart \o <<"\n">>,                          \* trailing newline
      DefaultStart \o <<" ">>,                           \* trailing blank
      T("0", "0", "0", "2", "3", U0663) }                \* non-ASCII digit

Markers == {<<>>} \cup WellFormedMarkers \cup OtherMarkers

\* what a duration probe can report, in seconds
Durations == {0, 1, 100, 200, 230, 400}

\* [mm:ss.mmm --> mm:ss.mmm] with the given second digits
StampText(a, b) ==
    <<"[", "0", "0", ":", "0", a, ".", "0", "0", "0", " ", "-", "-", ">", " ",
      "0", "0", ":", "0", b, ".", "0", "0", "0", "]">>

\* lines the engine may print: Whisper prints f"[{start} --> {end}] {text}"
\* for each segment, and other lines in between
LinePool ==
    { StampText("0", "2") \o <<" ", " ", "h", "i">>,
      StampText("2", "4") \o <<" ", " ", "y", "o", " ">>,
      StampText("4", "6") \o <<" ">>,                    \* segment with no text
      <<"D", "e", "t", "e", "c", "t", "e", "d">>,
      <<"[", "0", "0", ":", "0", "0", "]", " ", "x">> }  \* not a time range

\* print(line) writes the line and then the newline
RECURSIVE Chunks(_)
Chunks(lines) ==
    IF lines = <<>> THEN <<>>
    ELSE <<Head(lines), <<"\n">> >> \o Chunks(Tail(lines))

SeqsUpTo(S, n) == UNION { [1..k -> S] : k \in 0..n }

Outputs == { Chunks(ls) : ls \in SeqsUpTo(LinePool, MaxLines) }

DefaultOutput ==
    Chunks(<< <<"D", "e", "t", "e", "c", "t", "e", "d">>,
              StampText("0", "2") \o <<" ", " ", "h", "i">> >>)

TextPool ==
    { <<" ", " ", "h", "i", " ", " ">>,
      <<"t", "h", "e", "r", "e">>,
      <<" ", "w", "o", "r", "l", "d">>,
      <<"a", " ", "b", "\n">>,
      <<" ">> }

SegLists == SeqsUpTo(TextPool, MaxSegs)

DefaultSegs == << <<" ", " ", "h", "i">> >>

-----------------------------------------------------------------------------
(* The run                                                                 *)

\* lines 226-227
is_local == SOURCE = "local_file"

\* The user settings (lines 37-39, 49-50) and the audio are fixed before
\* main() runs.  The three disjuncts vary the settings, the engine's output
\* and the engine's result, one at a time around the shipped settings.
Init ==
    /\ \/ /\ SOURCE \in {"local_file", "url"}
          /\ START_TS \in Markers
          /\ END_TS \in Markers
          /\ whisper_out = DefaultOutput
          /\ whisper_segs = DefaultSegs
       \/ /\ SOURCE = "url"
          /\ START_TS = DefaultStart
          /\ END_TS = DefaultEnd
          /\ whisper_out \in Outputs
          /\ whisper_segs = DefaultSegs
       \/ /\ SOURCE = "url"
          /\ START_TS = DefaultStart
          /\ END_TS = DefaultEnd
          /\ whisper_out = DefaultOutput
          /\ whisper_segs \in SegLists
    /\ pc = "mkdir"
    /\ dur = None
    /\ s_sec = None
    /\ e_sec = None
    /\ start = NoText
    /\ end = NoText
    /\ acq_calls = 0
    /\ acq_rc = None
    /\ mp3_exists = FALSE
    /\ transcribe_calls = 0
    /\ emitted = 0
    /\ captured = <<>>
    /\ status = "unset"
    /\ txt = NoFile
    /\ txt_writes = 0
    /\ exc = "none"
    /\ int_at = "none"
    /\ banner = "none"
    /\ stderr = "none"
    /\ exit_code = None

inputs == <<SOURCE, START_TS, END_TS, whisper_out, whisper_segs>>
window == <<dur, s_sec, e_sec, start, end>>
acquired == <<acq_calls, acq_rc, mp3_exists>>
transcript == <<transcribe_calls, emitted, captured, status, txt, txt_writes>>
outcome == <<banner, stderr, exit_code>>

\* raise: control goes to main's except clauses
Raise(e) == pc' = "except" /\ exc' = e

\* lines 218-227: ensure_outdir and run_dir.mkdir(); mkdir raises
\* FileExistsError when the directory of this second already exists
MakeRunDir ==
    /\ pc = "mkdir"
    /\ \/ pc' = "probe" /\ exc' = exc
       \/ Raise("FileExistsError")
    /\ UNCHANGED <<inputs, window, acquired, transcript, outcome, int_at>>

\* get_local_duration (lines 100-108): int(float(out)) or None
get_local_duration == {None} \cup Durations

\* get_video_duration (lines 75-82): int(duration or 0) or None
get_video_duration == { IF d = 0 THEN None ELSE d : d \in {None} \cup Durations }

\* lines 230-233
ProbeDuration ==
    /\ pc = "probe"
    /\ dur' \in IF is_local THEN get_local_duration ELSE get_video_duration
    /\ pc' = "resolve"
    /\ UNCHANGED <<inputs, s_sec, e_sec, start, end, acquired, transcript,
                   outcome, exc, int_at>>

\* lines 235-248
ResolveClipRange ==
    /\ pc = "resolve"
    /\ IF Truthy(dur)
       THEN IF KnownRaises(START_TS, END_TS)
            THEN /\ Raise("ValueError: Bad timestamp")
                 /\ UNCHANGED <<s_sec, e_sec, start, end>>
            ELSE LET w == ClipKnown(START_TS, END_TS, dur)
                 IN  /\ s_sec' = w[1]
                     /\ e_sec' = w[2]
                     /\ start' = sec_to_ts(w[1])
                     /\ end' = sec_to_ts(w[2])
                     /\ pc' = "acquire"
                     /\ exc' = exc
       ELSE IF UnknownRaises(START_TS, END_TS)
            THEN /\ Raise("ValueError: Unknown media length")
                 /\ UNCHANGED <<s_sec, e_sec, start, end>>
            ELSE /\ start' = START_TS
                 /\ end' = END_TS
                 /\ pc' = "acquire"
                 /\ UNCHANGED <<s_sec, e_sec, exc>>
    /\ UNCHANGED <<inputs, dur, acquired, transcript, outcome, int_at>>

\* lines 251-254: one subprocess.run of ffmpeg or yt-dlp, then the check of
\* its return code and of the output file
AcquireAudio ==
    /\ pc = "acquire"
    /\ \E rc \in {0, 1}, exists \in BOOLEAN :
          /\ acq_calls' = acq_calls + 1
          /\ acq_rc' = rc
          /\ mp3_exists' = exists
          /\ IF is_local
             THEN IF extract_audio_local_raises(rc, exists)
                  THEN Raise("RuntimeError: ffmpeg failed")
                  ELSE pc' = "load" /\ exc' = exc
             ELSE IF download_audio_raises(rc, exists)
                  THEN Raise("RuntimeError: yt-dlp failed")
                  ELSE pc' = "load" /\ exc' = exc
    /\ UNCHANGED <<inputs, window, transcript, outcome, int_at>>

\* line 257 and transcribe lines 175-189: load the model; load_model may raise
LoadModel ==
    /\ pc = "load"
    /\ transcribe_calls' = transcribe_calls + 1
    /\ \/ /\ pc' = "running"
          /\ status' = "Unknown"
          /\ captured' = <<>>
          /\ exc' = exc
       \/ /\ Raise("RuntimeError: whisper failed")
          /\ UNCHANGED <<status, captured>>
    /\ UNCHANGED <<inputs, window, acquired, emitted, txt, txt_writes, outcome,
                   int_at>>

\* lines 192-194, Tee.write (117-119): the engine prints one more chunk, which
\* the Tee copies into the capture buffer
Emit ==
    /\ pc = "running"
    /\ emitted < Len(whisper_out)
    /\ emitted' = emitted + 1
    /\ captured' = captured \o whisper_out[emitted + 1]
    /\ UNCHANGED <<inputs, window, acquired, transcribe_calls, status, txt,
                   txt_writes, outcome, pc, exc, int_at>>

\* line 194: model.transcribe returns its result
TranscribeReturns ==
    /\ pc = "running"
    /\ emitted = Len(whisper_out)
    /\ pc' = "write"
    /\ UNCHANGED <<inputs, window, acquired, transcript, outcome, exc, int_at>>

\* line 194: model.transcribe raises an Exception; the finally block
\* (208-211) runs and the exception leaves transcribe
TranscribeCrashes ==
    /\ pc = "running"
    /\ Raise("RuntimeError: whisper failed")
    /\ UNCHANGED <<inputs, window, acquired, transcript, outcome, int_at>>

\* lines 196-198
WriteTranscript ==
    /\ pc = "write"
    /\ txt' = FullTranscript(whisper_segs)
    /\ txt_writes' = txt_writes + 1
    /\ status' = "Completed"
    /\ pc' = "finally"
    /\ UNCHANGED <<inputs, window, acquired, transcribe_calls, emitted,
                   captured, outcome, exc, int_at>>

\* lines 208-211 on the normal path, and the return to main
FinallyReturn ==
    /\ pc = "finally"
    /\ pc' = "banner"
    /\ UNCHANGED <<inputs, window, acquired, transcript, outcome, exc, int_at>>

\* line 258, and the normal end of the process
Finished ==
    /\ pc = "banner"
    /\ banner' = "success"
    /\ exit_code' = 0
    /\ pc' = "done"
    /\ UNCHANGED <<inputs, window, acquired, transcript, stderr, exc, int_at>>

\* KeyboardInterrupt raised in main's try body outside any call that has
\* effects of its own, or in transcribe's finally block: it reaches main
InterruptMain ==
    /\ int_at = "none"
    /\ pc \in {"mkdir", "probe", "resolve", "finally", "banner"}
    /\ int_at' = pc
    /\ Raise("KeyboardInterrupt")
    /\ UNCHANGED <<inputs, window, acquired, transcript, outcome>>

\* KeyboardInterrupt before or during the acquisition subprocess (94, 162):
\* subprocess.run re-raises it; the collaborator may have left a file
InterruptAcquire ==
    /\ int_at = "none"
    /\ pc = "acquire"
    /\ int_at' = pc
    /\ \/ UNCHANGED <<acq_calls, mp3_exists>>
       \/ acq_calls' = acq_calls + 1 /\ mp3_exists' \in BOOLEAN
    /\ Raise("KeyboardInterrupt")
    /\ UNCHANGED <<inputs, window, acq_rc, transcript, outcome>>

\* KeyboardInterrupt at line 257 or in transcribe before its try (175-189)
InterruptLoad ==
    /\ int_at = "none"
    /\ pc = "load"
    /\ int_at' = pc
    /\ transcribe_calls' \in {transcribe_calls, transcribe_calls + 1}
    /\ Raise("KeyboardInterrupt")
    /\ UNCHANGED <<inputs, window, acquired, emitted, captured, status, txt,
                   txt_writes, outcome>>

\* KeyboardInterrupt while model.transcribe runs (192-194): transcribe's
\* except clause (200) takes it
InterruptRunning ==
    /\ int_at = "none"
    /\ pc = "running"
    /\ int_at' = pc
    /\ pc' = "save_partial"
    /\ exc' = "KeyboardInterrupt"
    /\ UNCHANGED <<inputs, window, acquired, transcript, outcome>>

\* KeyboardInterrupt in lines 196-198, before or after write_text ran:
\* transcribe's except clause takes it as well
InterruptWrite ==
    /\ int_at = "none"
    /\ pc = "write"
    /\ int_at' = pc
    /\ \/ UNCHANGED <<txt, txt_writes>>
       \/ /\ txt' = FullTranscript(whisper_segs)
          /\ txt_writes' = txt_writes + 1
    /\ pc' = "save_partial"
    /\ exc' = "KeyboardInterrupt"
    /\ UNCHANGED <<inputs, window, acquired, transcribe_calls, emitted,
                   captured, status, outcome>>

\* lines 200-206 without the raise of line 206: transcribe returns normally
SavePartial_Swallow ==
    /\ pc = "save_partial"
    /\ txt' = PartialTranscript(captured)
    /\ txt_writes' = txt_writes + 1
    /\ status' = "Interrupted (Partial)"
    /\ pc' = "banner"
    /\ exc' = "none"
    /\ UNCHANGED <<inputs, window, acquired, transcribe_calls, emitted,
                   captured, outcome, int_at>>

\* lines 200-206, then the finally block, then the re-raise leaves transcribe
SavePartial ==
    /\ pc = "save_partial"
    /\ txt' = PartialTranscript(captured)
    /\ txt_writes' = txt_writes + 1
    /\ status' = "Interrupted (Partial)"
    /\ Raise("KeyboardInterrupt")
    /\ UNCHANGED <<inputs, window, acquired, transcribe_calls, emitted,
                   captured, outcome, int_at>>

\* lines 260-262 with sys.exit(1)
ExceptKeyboardInterrupt_Exit1 ==
    /\ pc = "except"
    /\ exc = "KeyboardInterrupt"
    /\ banner' = "interrupted"
    /\ exit_code' = 1
    /\ pc' = "done"
    /\ UNCHANGED <<inputs, window, acquired, transcript, stderr, exc, int_at>>

\* lines 260-262
ExceptKeyboardInterrupt ==
    /\ pc = "except"
    /\ exc = "KeyboardInterrupt"
    /\ banner' = "interrupted"
    /\ exit_code' = 0
    /\ pc' = "done"
    /\ UNCHANGED <<inputs, window, acquired, transcript, stderr, exc, int_at>>

\* lines 263-266
ExceptException ==
    /\ pc = "except"
    /\ exc # "KeyboardInterrupt"
    /\ banner' = "failed"
    /\ stderr' = exc
    /\ exit_code' = 1
    /\ pc' = "done"
    /\ UNCHANGED <<inputs, window, acquired, transcript, exc, int_at>>

Next ==
    \/ MakeRunDir
    \/ ProbeDuration
    \/ ResolveClipRange
    \/ AcquireAudio
    \/ LoadModel
    \/ Emit
    \/ TranscribeReturns
    \/ TranscribeCrashes
    \/ WriteTranscript
    \/ FinallyReturn
    \/ Finished
    \/ InterruptMain
    \/ InterruptAcquire
    \/ InterruptLoad
    \/ InterruptRunning
    \/ InterruptWrite
    \/ SavePartial
    \/ ExceptKeyboardInterrupt
    \/ ExceptException

Spec == Init /\ [][Next]_vars

-----------------------------------------------------------------------------
(* Vocabulary of the properties                                            *)

\* exactly HH:MM:SS: eight characters, ASCII digits, minute and second < 60
StrictHMS(t) ==
    /\ Len(t) = 8
    /\ IsAsciiDigit(t[1]) /\ IsAsciiDigit(t[2])
    /\ t[3] = ":"
    /\ IsDigit05(t[4]) /\ IsAsciiDigit(t[5])
    /\ t[6] = ":"
    /\ IsDigit05(t[7]) /\ IsAsciiDigit(t[8])

\* the seconds an exact HH:MM:SS text denotes
SecondsOf(t) ==
    (10 * DigitVal(t[1]) + DigitVal(t[2])) * 3600
    + (10 * DigitVal(t[4]) + DigitVal(t[5])) * 60
    + (10 * DigitVal(t[7]) + DigitVal(t[8]))

Absent(t) == t = <<>>
Malformed(t) == ~Absent(t) /\ ~StrictHMS(t)
ValidOrAbsent(t) == Absent(t) \/ StrictHMS(t)

\* the Resolver has run to its end (returned or failed)
ResolveRan ==
    /\ pc \notin {"mkdir", "probe", "resolve"}
    /\ int_at \notin {"mkdir", "probe", "resolve"}
    /\ exc # "FileExistsError"

\* the Resolver returned a window, which main hands to the acquisition stage
Resolved == start # NoText

InvalidWindow == {"ValueError: Bad timestamp", "ValueError: Unknown media length"}
AcquisitionFailed == {"RuntimeError: ffmpeg failed", "RuntimeError: yt-dlp failed"}

\* the window section 4.1 step 1 describes, for markers that are exact or absent
ExpectedWindow(S, E, D) ==
    LET s  == IF Absent(S) THEN 0 ELSE SecondsOf(S)
        e0 == IF Absent(E) THEN D ELSE SecondsOf(E)
        e  == IF e0 > D THEN D ELSE e0
    IN  IF s >= e THEN <<0, D>> ELSE <<s, e>>

-----------------------------------------------------------------------------
(* C1 *)

\* C1: a run whose start or end marker is malformed never gets a window out
\* of the Resolver: nothing is handed to the acquisition stage, the
\* collaborator is never invoked, and the run does not end in success,
\* whether a duration is known or not.
C1_MalformedNeverAcquired ==
    (Malformed(START_TS) \/ Malformed(END_TS)) =>
        /\ ~Resolved
        /\ acq_calls = 0
        /\ (ResolveRan /\ int_at = "none" /\ pc = "done" =>
                banner = "failed" /\ stderr \in InvalidWindow)

-----------------------------------------------------------------------------
(* C2 *)

\* C2 as stated: whenever the probe reported a duration D >= 0 and the
\* markers are exact or absent, the Resolver returns the window of section
\* 4.1 step 1.
C2_WindowForAnyDuration ==
    (dur # None /\ ValidOrAbsent(START_TS) /\ ValidOrAbsent(END_TS) /\ ResolveRan) =>
        /\ Resolved
        /\ <<s_sec, e_sec>> = ExpectedWindow(START_TS, END_TS, dur)

\* C2 amended: whenever the probe reported a duration D >= 1 and the markers
\* are exact or absent, the Resolver returns the window of section 4.1 step
\* 1, as seconds and as the text handed on; a reported duration of 0 takes
\* the unknown-duration branch instead.
C2_WindowForPositiveDuration ==
    (ValidOrAbsent(START_TS) /\ ValidOrAbsent(END_TS) /\ ResolveRan) =>
        /\ dur # None /\ dur >= 1 =>
              /\ Resolved
              /\ <<s_sec, e_sec>> = ExpectedWindow(START_TS, END_TS, dur)
              /\ StrictHMS(start) /\ SecondsOf(start) = s_sec
              /\ StrictHMS(end) /\ SecondsOf(end) = e_sec
        /\ dur = 0 =>
              /\ s_sec = None /\ e_sec = None
              /\ Resolved <=> ~Absent(START_TS) /\ ~Absent(END_TS)
              /\ Resolved => start = START_TS /\ end = END_TS

\* D = 200, no start, end 00:05:00: the window (0, 200) is on its way to the
\* acquisition stage
C2_Witness ==
    /\ pc = "acquire"
    /\ dur = 200
    /\ Absent(START_TS)
    /\ END_TS = T("0", "0", "0", "5", "0", "0")
    /\ <<s_sec, e_sec>> = <<0, 200>>

-----------------------------------------------------------------------------
(* C3 *)

\* C3 as stated, for user markers that are exact or absent: the window handed
\* to the acquisition stage is ordered, 0 <= start < end.
C3_WindowAlwaysOrdered ==
    (ValidOrAbsent(START_TS) /\ ValidOrAbsent(END_TS) /\ Resolved) =>
        /\ StrictHMS(start) /\ StrictHMS(end)
        /\ 0 <= SecondsOf(start)
        /\ SecondsOf(start) < SecondsOf(end)

\* C3 amended: when the duration is known (the probe reported D >= 1), the
\* window handed to the acquisition stage satisfies 0 <= start < end <= D.
C3_WindowOrderedWhenDurationKnown ==
    (Truthy(dur) /\ Resolved) =>
        /\ 0 <= s_sec
        /\ s_sec < e_sec
        /\ e_sec <= dur

\* start = end = 00:03:00 inside a 200 s source: the degenerate request was
\* replaced and an ordered window reached the collaborator
C3_Witness ==
    /\ acq_calls = 1
    /\ dur = 200
    /\ START_TS = T("0", "0", "0", "3", "0", "0")
    /\ END_TS = START_TS
    /\ s_sec < e_sec

-----------------------------------------------------------------------------
(* C4 *)

\* C4: with no duration (the probe returned None), the Resolver fails with
\* InvalidWindow exactly when a marker is absent; with both present it
\* returns the two markers as given: not clamped, not reordered, not replaced.
C4_UnknownDuration ==
    (dur = None /\ ResolveRan) =>
        /\ exc \in InvalidWindow <=> Absent(START_TS) \/ Absent(END_TS)
        /\ Resolved <=> ~(Absent(START_TS) \/ Absent(END_TS))
        /\ Resolved =>
              /\ start = START_TS
              /\ end = END_TS
              /\ s_sec = None /\ e_sec = None
        /\ exc = "ValueError: Unknown media length" => acq_calls = 0

\* no duration, start 00:03:00 after end 00:01:00: handed on as given
C4_Witness ==
    /\ pc = "acquire"
    /\ dur = None
    /\ START_TS = T("0", "0", "0", "3", "0", "0")
    /\ END_TS = T("0", "0", "0", "1", "0", "0")
    /\ start = START_TS
    /\ end = END_TS

-----------------------------------------------------------------------------
(* C5 *)

\* C5: ts_to_sec and sec_to_ts are mutual inverses.  Whenever main converted
\* an accepted marker to seconds and those seconds back to text (lines 236,
\* 237, 242), the text is the marker again; and every second count below 24 h
\* that main formatted reads back as the same count.
C5_RoundTrip ==
    Truthy(dur) /\ Resolved =>
        /\ ~Absent(START_TS) /\ s_sec = ts_to_sec(START_TS) => start = START_TS
        /\ ~Absent(END_TS) /\ e_sec = ts_to_sec(END_TS) => end = END_TS
        /\ s_sec < 86400 => TS_RE_match(start) /\ ts_to_sec(start) = s_sec
        /\ e_sec < 86400 => TS_RE_match(end) /\ ts_to_sec(end) = e_sec

-----------------------------------------------------------------------------
(* C6 *)

\* C6: once an interrupt has arrived while model.transcribe was running, the
\* interrupt is in flight towards main or reported by main only with the
\* partial transcript already written and the status "Interrupted (Partial)";
\* it is never swallowed, and the run ends with the interrupted banner.
C6_PartialSavedBeforeInterruptPropagates ==
    int_at = "running" =>
        /\ pc \in {"save_partial", "except", "done"}
        /\ exc = "KeyboardInterrupt"
        /\ pc \in {"except", "done"} =>
              /\ txt # NoFile
              /\ txt_writes = 1
              /\ status = "Interrupted (Partial)"
        /\ pc = "save_partial" => banner = "none" /\ exit_code = None
        /\ pc = "done" => banner = "interrupted" /\ exit_code = 0
        /\ banner \in {"none", "interrupted"}

\* the partial transcript is on disk and main has not yet heard of the
\* interrupt
C6_Witness ==
    /\ int_at = "running"
    /\ emitted >= 1
    /\ pc = "except"
    /\ exc = "KeyboardInterrupt"
    /\ txt # NoFile
    /\ banner = "none"

-----------------------------------------------------------------------------
(* C7 *)

RECURSIVE SplitLines(_)
\* the lines of a text, without their newlines
SplitLines(b) ==
    LET e == LineEnd(b, 1)
    IN  IF e > Len(b) THEN <<b>>
        ELSE <<SubSeq(b, 1, e - 1)>> \o SplitLines(SubSeq(b, e + 1, Len(b)))

\* a line matches the timestamped-line pattern
LineMatches(l) == \E i \in 1..Len(l) : MatchAt(l, i)[1] # 0

\* the text portion of a matching line
LineText(l) ==
    LET i == CHOOSE k \in 1..Len(l) :
                 /\ MatchAt(l, k)[1] # 0
                 /\ \A j \in 1..(k - 1) : MatchAt(l, j)[1] = 0
    IN  SubSeq(l, MatchAt(l, i)[1], Len(l))

RECURSIVE Lines(_)
\* texts, one per line
Lines(ts) ==
    IF ts = <<>> THEN <<>>
    ELSE IF Len(ts) = 1 THEN Head(ts)
    ELSE Head(ts) \o <<"\n">> \o Lines(Tail(ts))

\* the partial transcript section 4.3 step 4 describes
ExpectedPartial(b) ==
    LET ms == SelectSeq(SplitLines(b), LineMatches)
    IN  IF ms # <<>> THEN Lines([i \in 1..Len(ms) |-> LineText(ms[i])]) ELSE b

\* C7: after a cancellation the transcript file holds the text portions of
\* the captured lines that match the timestamped-line pattern, in order, one
\* per line, and nothing of the other lines; or the whole captured buffer
\* when no line matches.
C7_PartialIsTextOfMatchingLines ==
    status = "Interrupted (Partial)" => txt = ExpectedPartial(captured)

-----------------------------------------------------------------------------
(* C8 *)

\* t is s without its leading and trailing whitespace
IsTrimOf(t, s) ==
    \E a \in 0..Len(s), z \in 0..Len(s) :
        /\ a <= z
        /\ t = SubSeq(s, a + 1, z)
        /\ \A i \in 1..a : IsSpace(s[i])
        /\ \A i \in (z + 1)..Len(s) : IsSpace(s[i])
        /\ t # <<>> => ~IsSpace(t[1]) /\ ~IsSpace(t[Len(t)])

\* txt from position p on is the trimmed texts of segments k.. , separated by
\* single newlines
RECURSIVE HoldsSegments(_, _, _, _)
HoldsSegments(text, p, segs, k) ==
    IF k > Len(segs) THEN p = Len(text) + 1 \/ (Len(segs) = 0 /\ text = <<>>)
    ELSE \E q \in p..(Len(text) + 1) :
            /\ IsTrimOf(SubSeq(text, p, q - 1), segs[k])
            /\ IF k = Len(segs) THEN q = Len(text) + 1
               ELSE /\ q <= Len(text)
                    /\ text[q] = "\n"
                    /\ HoldsSegments(text, q + 1, segs, k + 1)

\* C8: when transcribe completes, the transcript file holds the segments'
\* texts, each without its surrounding whitespace, in segment order, with one
\* newline between neighbours; no segments give an empty file; the status is
\* Completed.
C8_FullTranscript ==
    /\ status = "Completed" =>
          /\ txt # NoFile
          /\ HoldsSegments(txt, 1, whisper_segs, 1)
          /\ whisper_segs = <<>> => txt = <<>>
    /\ pc \in {"finally", "banner"} => status = "Completed"
    /\ banner = "success" => status = "Completed"

\* ["  hi  ", "there", " world"] gave "hi\nthere\nworld"
C8_Witness ==
    /\ status = "Completed"
    /\ whisper_segs = << <<" ", " ", "h", "i", " ", " ">>,
                         <<"t", "h", "e", "r", "e">>,
                         <<" ", "w", "o", "r", "l", "d">> >>
    /\ txt = <<"h", "i", "\n", "t", "h", "e", "r", "e", "\n", "w", "o", "r", "l", "d">>

\* no segments: an empty file and a successful run
C8_WitnessEmpty ==
    /\ whisper_segs = <<>>
    /\ txt = <<>>
    /\ banner = "success"

-----------------------------------------------------------------------------
(* C9 *)

\* C9: the process has an exit result exactly when the run has ended, and the
\* result follows from how it ended: an interrupt gives exit code 0 and the
\* interrupted banner; a failure (bad window, directory collision, failed
\* acquisition, failed transcription) gives exit code 1, the failed banner
\* and the reason on the error stream; otherwise every stage succeeded and
\* the run gives exit code 0 and the success banner.
C9_ExitResult ==
    /\ pc # "done" => exit_code = None /\ banner = "none" /\ stderr = "none"
    /\ pc = "done" =>
          /\ int_at # "none" =>
                exit_code = 0 /\ banner = "interrupted" /\ stderr = "none"
          /\ int_at = "none" /\ exc # "none" =>
                /\ exit_code = 1 /\ banner = "failed" /\ stderr = exc
                /\ exc \in InvalidWindow \cup AcquisitionFailed
                           \cup {"FileExistsError", "RuntimeError: whisper failed"}
          /\ int_at = "none" /\ exc = "none" =>
                /\ exit_code = 0 /\ banner = "success" /\ stderr = "none"
                /\ Resolved
                /\ acq_rc = 0 /\ mp3_exists
                /\ status = "Completed" /\ txt # NoFile

\* a run ended by the interrupt, after the transcript was complete
C9_Witness ==
    /\ pc = "done"
    /\ int_at = "banner"
    /\ exit_code = 0
    /\ banner = "interrupted"

-----------------------------------------------------------------------------
(* C10 *)

\* C10: once the acquisition collaborator has returned, the run goes on to
\* transcription only if the return code is 0 and the output file exists;
\* otherwise the acquisition step raised, transcribe is never called, no
\* transcript file is written, the collaborator is not invoked again and the
\* run ends as failed.  The collaborator is invoked at most once in any run.
C10_AcquisitionPostcondition ==
    /\ acq_calls <= 1
    /\ acq_rc # None =>
          IF acq_rc = 0 /\ mp3_exists
          THEN exc \notin AcquisitionFailed
          ELSE /\ exc = IF is_local THEN "RuntimeError: ffmpeg failed"
                        ELSE "RuntimeError: yt-dlp failed"
               /\ pc \in {"except", "done"}
               /\ transcribe_calls = 0
               /\ txt = NoFile /\ txt_writes = 0
               /\ acq_calls = 1
               /\ pc = "done" => banner = "failed" /\ exit_code = 1
    /\ transcribe_calls > 0 => acq_rc = 0 /\ mp3_exists

\* yt-dlp returned 0 without leaving audio.mp3: the run failed
C10_Witness ==
    /\ ~is_local
    /\ acq_rc = 0
    /\ ~mp3_exists
    /\ pc = "done"
    /\ banner = "failed"

====
